---- MODULE Spec2Model ----
(***************************************************************************)
(* The event-flow engine of the DOME Interchain Event Distributor:         *)
(* the fan-out publisher, the replicator, the consumer notification        *)
(* dispatch and the Redis cache they share.  Every await of the source is  *)
(* a step boundary: two invocations of an async function interleave at     *)
(* their awaits and nowhere else.                                          *)
(***************************************************************************)
EXTENDS Integers, Sequences, FiniteSets, TLC

(* ---------------------------------------------------------------- bounds *)
MaxHandlers == 2        \* replication handlers in flight at once
MaxExternal == 3        \* notifications whose event originates on a ledger
MaxDirect == 1          \* POST /api/v1/publishEvent requests
LoopExternal == 1       \* ledger-born notifications in the closed loop
MaxNotifiers == 2       \* consumer-notification handlers in flight at once
MaxNotifications == 2   \* calls of POST /internal/desmosNotification
MaxSubs == 2            \* calls of POST /api/v1/subscribe
MaxAny == 2             \* notifications under any :network parameter
MaxCalls == 2           \* invocations of the adapter client

(* --------------------------------------------------------- configuration *)
\* loadAdapterConfigs(): hashnet first, alastria second
adapters == <<"hashnet", "alastria">>

\* getAdapterNames()
getAdapterNames == adapters

AdapterSet == {adapters[i] : i \in 1..Len(adapters)}

\* the :network parameter of the webhook route is any non-empty string
Networks == AdapterSet \cup {"fabric"}

\* the global id the history variables follow
GlobalId == "0xaaa"

GlobalIds == {GlobalId}

NoHl == <<>>

\* a dataLocation, reduced to what URL.searchParams.get('hl') sees of it:
\* no hl parameter, an empty one, or one with a value
DataLocations ==
  {[hl |-> <<g>>] : g \in GlobalIds \cup {""}} \cup {[hl |-> NoHl]}

LocationOf(g) == [hl |-> <<g>>]

Thrown == "Error"

\* a reading of hl that takes an absent or empty parameter as an id
extractGlobalIdLenient(dataLocation) ==
  IF dataLocation.hl = NoHl THEN "" ELSE dataLocation.hl[1]

\* extractGlobalId: the value of hl, or a throw when it is absent or empty
extractGlobalId(dataLocation) ==
  IF dataLocation.hl = NoHl THEN Thrown
  ELSE IF dataLocation.hl[1] = "" THEN Thrown
  ELSE dataLocation.hl[1]

EventTypes == {"ProductAdded", "ProductUpdated"}

\* an event as an adapter posts it: with or without the network field
Event(d, t, fields) ==
  [f \in fields |-> IF f = "dataLocation" THEN d
                    ELSE IF f = "eventType" THEN t
                    ELSE "ledger"]

EventOf(d, fields) == Event(d, "ProductAdded", fields)

BaseFields == {"dataLocation", "eventType"}

\* the events the adapters post to the replication webhook
Events == {EventOf(d, BaseFields \cup {"network"}) : d \in DataLocations}

\* a stripping that returns the event as it came
keepNetworkParameter(event) == event

\* stripNetworkParameter: the event without its network field
stripNetworkParameter(event) ==
  [f \in DOMAIN event \ {"network"} |-> event[f]]

\* publishRequest of replicateToNetworks: the named fields of the stripped event
publishRequest(event) ==
  LET eventWithoutNetwork == stripNetworkParameter(event) IN
  [f \in BaseFields |-> eventWithoutNetwork[f]]

\* validateRequest(publishEventSchema) with stripUnknown: the fields of the
\* schema only
validatePublishEvent(body) == [f \in DOMAIN body \cap BaseFields |-> body[f]]

\* adapterRequest of publishEventToAllAdapters: the named fields of the request
adapterRequest(request) == [f \in BaseFields |-> request[f]]

(* ------------------------------------------------------------------ state *)
VARIABLES
  published,    \* Redis sets network:<name>
  handlers,     \* invocations of handleIncomingEvent
  inbox,        \* notifications the adapters owe for accepted publishes
  pubOp,        \* the invocation of publishEventToAllAdapters
  extLeft,      \* ledger-originated notifications still to come
  directLeft,   \* consumer publish requests still to come
  replCalls,    \* history: replication publishEvent calls per adapter
  replOk,       \* history: those the adapter accepted
  lastPub,      \* history: outcome of the latest publishEvent call per adapter
  directOk,     \* history: adapters that accepted a direct publishEvent call
  starts,       \* history: handleIncomingEvent calls per network (0, 1, more)
  cacheFailed,  \* history: a Redis command has failed
  notified,     \* Redis set notifiedEvents
  activeSubscriptions,  \* the in-process registry, by subscription id
  subOp,        \* the invocation of subscribeDesmosToEvents
  notifiers,    \* invocations of handleDesmosNotification
  subsMade,     \* subscription ids generated so far
  notifLeft,    \* consumer notifications still to come
  posts,        \* history: POSTs to each subscription's callback for the id
  webhook,      \* the status of the latest answer of each webhook route
  calls,        \* invocations of the adapter client, one per adapter
  callsLeft,    \* client invocations still to come
  boot          \* the invocation of initialize

vars == <<published, handlers, inbox, pubOp, extLeft, directLeft, replCalls,
          replOk, lastPub, directOk, starts, cacheFailed, notified,
          activeSubscriptions, subOp, notifiers, subsMade, notifLeft, posts,
          webhook, calls, callsLeft, boot>>

replVars == <<published, handlers, inbox, pubOp, extLeft, directLeft,
              replCalls, replOk, lastPub, directOk, starts>>

notifyVars == <<notified, activeSubscriptions, subOp, notifiers, subsMade,
                notifLeft, posts>>

\* the client invocation and the bootstrap, which the routes leave alone
otherVars == <<calls, callsLeft, boot>>

\* the history counters stop here; no run of the engine gets this far
CallCap == MaxExternal + LoopExternal + MaxDirect + 1

NoTargets == [a \in AdapterSet |-> "-"]

IdleHandler ==
  [pc |-> "idle", event |-> <<>>, sourceNetwork |-> "-", i |-> 0,
   missingNetworks |-> <<>>, targets |-> NoTargets, full |-> FALSE,
   publishRequest |-> <<>>]

NoResults == [a \in AdapterSet |-> "none"]

IdlePubOp ==
  [pc |-> "idle", request |-> <<>>, st |-> NoTargets, results |-> NoResults,
   marked |-> {}, success |-> FALSE, http |-> 0, adapterRequest |-> <<>>]

NoSubscription == [eventTypes |-> <<>>, callbackUrl |-> "-", active |-> FALSE]

IdleSubOp == [pc |-> "idle", id |-> 0, st |-> NoTargets, results |-> NoResults,
              success |-> FALSE, http |-> 0]

IdleNotifier ==
  [pc |-> "idle", event |-> <<>>, pending |-> {}, failed |-> FALSE,
   body |-> <<>>]

IdleCall ==
  [pc |-> "idle", operation |-> "-", attempt |-> 0, made |-> 0,
   errors |-> {}, lastError |-> "none", result |-> <<>>]

\* envConfig.ied.baseUrl
iedBaseUrl == "http://ied"

\* initialize() at its first statement, for a NODE_ENV and a value of
\* INTERNAL_SUBSCRIPTION_EVENT_TYPES ("" when unset)
BootBegin(nodeEnv, eventTypesEnv) ==
  [pc |-> "connectRedis", nodeEnv |-> nodeEnv, eventTypesEnv |-> eventTypesEnv,
   i |-> 0, healthResults |-> [a \in AdapterSet |-> "none"],
   st |-> NoTargets, results |-> NoResults,
   requests |-> [a \in AdapterSet |-> <<>>],
   subscribes |-> [a \in AdapterSet |-> 0], degraded |-> FALSE,
   redis |-> "none"]

\* initialize() returned and the server listens
Running == [BootBegin("production", "") EXCEPT !.pc = "running"]

NoAnswer == [route \in {"eventNotification", "desmosNotification"} |-> 0]

\* an empty cache, nothing in flight
Fresh ==
  /\ published = [n \in Networks |-> {}]
  /\ handlers = [h \in 1..MaxHandlers |-> IdleHandler]
  /\ inbox = [a \in AdapterSet |-> 0]
  /\ pubOp = IdlePubOp
  /\ replCalls = [a \in AdapterSet |-> 0]
  /\ replOk = [a \in AdapterSet |-> 0]
  /\ lastPub = [a \in AdapterSet |-> "none"]
  /\ directOk = {}
  /\ starts = [n \in Networks |-> 0]
  /\ cacheFailed = FALSE
  /\ notified = {}
  /\ activeSubscriptions = [id \in 1..MaxSubs |-> NoSubscription]
  /\ subOp = IdleSubOp
  /\ notifiers = [d \in 1..MaxNotifiers |-> IdleNotifier]
  /\ subsMade = 0
  /\ posts = [id \in 1..MaxSubs |-> 0]
  /\ webhook = NoAnswer
  /\ calls = [a \in AdapterSet |-> IdleCall]

\* the engine after initialize()
Started ==
  /\ Fresh
  /\ callsLeft = 0
  /\ boot = Running

Init ==
  /\ Started
  /\ extLeft = MaxExternal
  /\ directLeft = 0
  /\ notifLeft = 0

(* ------------------------------------------------------------------ cache *)
\* redis.sAdd(key, globalId)
sAdd(set, globalId) == set \cup {globalId}

\* a write that never reaches the set
markEventPublishedDropped(cache, network, globalId) == cache

\* a write that replaces the whole cache by the one entry
markEventPublishedOverwrites(cache, network, globalId) ==
  [n \in DOMAIN cache |-> IF n = network THEN {globalId} ELSE {}]

\* markEventPublished when the Redis command succeeds
markEventPublished(cache, network, globalId) ==
  [cache EXCEPT ![network] = sAdd(cache[network], globalId)]

\* a lookup under a key nothing is written to
isEventOnNetworkOtherKey(cache, network, globalId) == FALSE

\* isEventOnNetwork when the Redis command succeeds
isEventOnNetwork(cache, network, globalId) == globalId \in cache[network]

\* an iteration that never pushes
pushNever(missingNetworks, network, exists) == missingNetworks

\* an iteration that pushes whatever the lookup says
pushAlways(missingNetworks, network, exists) == Append(missingNetworks, network)

\* one iteration of the loop of getMissingNetworks
pushIfMissing(missingNetworks, network, exists) ==
  IF ~exists THEN Append(missingNetworks, network) ELSE missingNetworks

(* ------------------------------------------------------------ replication *)
\* a webhook that sends no answer when it starts the work
acknowledgeNothing(route) == webhook

\* res.status(200).send('OK'), the statement after the call that starts the
\* work, whose promise is not awaited
acknowledge(route) == [webhook EXCEPT ![route] = 200]

Busy(h) == handlers[h].pc # "idle"
AnyBusy == (\E h \in 1..MaxHandlers : Busy(h)) \/ pubOp.pc = "fanout"

\* invocations take the lowest free slot
FreeSlot(h) == /\ ~Busy(h)
               /\ \A k \in 1..MaxHandlers : k < h => Busy(k)

Return(h) == [handlers EXCEPT ![h] = IdleHandler]

\* handleEventNotification and handleIncomingEvent up to its first await
Receive(h, network, event) ==
  LET globalId == extractGlobalId(event.dataLocation) IN
  IF globalId = Thrown
  THEN /\ UNCHANGED <<handlers, starts>>
  ELSE /\ handlers' = [handlers EXCEPT ![h] =
            [IdleHandler EXCEPT !.pc = "markSource", !.event = event,
               !.sourceNetwork = network,
               !.full = \A a \in AdapterSet : globalId \in published[a]]]
       /\ starts' = [starts EXCEPT ![network] = IF @ < 2 THEN @ + 1 ELSE @]

\* POST /internal/eventNotification/:network for an event born on a ledger
handleEventNotification(h, network, event) ==
  /\ FreeSlot(h)
  /\ extLeft > 0
  /\ extLeft' = extLeft - 1
  /\ Receive(h, network, event)
  /\ webhook' = acknowledge("eventNotification")
  /\ UNCHANGED <<otherVars,
                 notifyVars, published, inbox, pubOp, directLeft, replCalls,
                 replOk, lastPub, directOk, cacheFailed>>

\* the same route, called by an adapter for an event the engine published to it
AdapterNotifies(h, a) ==
  /\ FreeSlot(h)
  /\ inbox[a] > 0
  /\ inbox' = [inbox EXCEPT ![a] = @ - 1]
  /\ \E g \in GlobalIds :
       Receive(h, a, EventOf(LocationOf(g), BaseFields \cup {"network"}))
  /\ webhook' = acknowledge("eventNotification")
  /\ UNCHANGED <<otherVars,
                 notifyVars, published, pubOp, extLeft, directLeft, replCalls,
                 replOk, lastPub, directOk, cacheFailed>>

\* await markEventPublished(sourceNetwork, globalId)
MarkSource(h) ==
  LET r == handlers[h]
      globalId == extractGlobalId(r.event.dataLocation) IN
  /\ r.pc = "markSource"
  /\ \E ok \in BOOLEAN :
       IF ok
       THEN /\ published' = markEventPublished(published, r.sourceNetwork, globalId)
            /\ handlers' = [handlers EXCEPT ![h].pc = "check", ![h].i = 1]
            /\ UNCHANGED cacheFailed
       ELSE /\ handlers' = Return(h)
            /\ cacheFailed' = TRUE
            /\ UNCHANGED published
  /\ UNCHANGED <<otherVars, webhook,
                 notifyVars, inbox, pubOp, extLeft, directLeft, replCalls,
                 replOk, lastPub, directOk, starts>>

\* a replication that calls the last target only
replicateToLast(targetNetworks) ==
  [a \in AdapterSet |->
     IF targetNetworks[Len(targetNetworks)] = a THEN "publish" ELSE "-"]

\* the targets replicateToNetworks starts a publishEvent call for
replicateToNetworks(targetNetworks) ==
  [a \in AdapterSet |->
     IF \E k \in 1..Len(targetNetworks) : targetNetworks[k] = a
     THEN "publish" ELSE "-"]

\* a lookup error answered by replicating to every adapter
replicateToAllOnError(h) ==
  [handlers EXCEPT ![h].pc = "replicate",
                   ![h].targets = [a \in AdapterSet |-> "publish"]]

\* getMissingNetworks rethrows and the catch of handleIncomingEvent logs:
\* the invocation ends
abortReplication(h) == Return(h)

\* one await isEventOnNetwork of getMissingNetworks; after the last one,
\* handleIncomingEvent returns or enters replicateToNetworks
CheckNetwork(h) ==
  LET r == handlers[h]
      globalId == extractGlobalId(r.event.dataLocation)
      network == getAdapterNames[r.i] IN
  /\ r.pc = "check"
  /\ \E ok \in BOOLEAN :
       IF ok
       THEN LET missing == pushIfMissing(r.missingNetworks, network,
                             isEventOnNetwork(published, network, globalId)) IN
            /\ IF r.i < Len(getAdapterNames)
               THEN handlers' = [handlers EXCEPT ![h].i = r.i + 1,
                                   ![h].missingNetworks = missing]
               ELSE IF Len(missing) = 0
               THEN handlers' = Return(h)
               ELSE handlers' = [handlers EXCEPT ![h].pc = "replicate",
                                   ![h].missingNetworks = missing,
                                   ![h].targets = replicateToNetworks(missing),
                                   ![h].publishRequest = publishRequest(r.event)]
            /\ UNCHANGED cacheFailed
       ELSE /\ handlers' = abortReplication(h)
            /\ cacheFailed' = TRUE
  /\ UNCHANGED <<otherVars, webhook,
                 notifyVars, published, inbox, pubOp, extLeft, directLeft,
                 replCalls, replOk, lastPub, directOk, starts>>

\* a replication that ends with the first target that settles
SettleFirst(h, a) == Return(h)

\* Promise.allSettled(replicationPromises): the handler returns with the
\* last target
Settle(h, a) ==
  LET t == [handlers[h].targets EXCEPT ![a] = "-"] IN
  IF t = NoTargets THEN Return(h)
  ELSE [handlers EXCEPT ![h].targets = t]

\* a replication that marks no target
markNever(success) == FALSE

\* if (result.success) in replicateToNetworks: whether the target is marked
markOnResult(success) == success

\* await client.publishEvent(publishRequest) for one target
ReplicatePublish(h, a) ==
  LET r == handlers[h] IN
  /\ r.pc = "replicate"
  /\ r.targets[a] = "publish"
  /\ replCalls[a] < CallCap
  /\ replCalls' = [replCalls EXCEPT ![a] = @ + 1]
  /\ \E success \in BOOLEAN :
       /\ lastPub' = [lastPub EXCEPT ![a] = IF success THEN "ok" ELSE "fail"]
       /\ replOk' = [replOk EXCEPT ![a] = IF success THEN @ + 1 ELSE @]
       /\ inbox' = [inbox EXCEPT ![a] = IF success THEN @ + 1 ELSE @]
       /\ IF markOnResult(success)
          THEN handlers' = [handlers EXCEPT ![h].targets[a] = "mark"]
          ELSE handlers' = Settle(h, a)
  /\ UNCHANGED <<otherVars, webhook,
                 notifyVars, published, pubOp, extLeft, directLeft, directOk,
                 starts, cacheFailed>>

\* await markEventPublished(network, globalId) for one target
ReplicateMark(h, a) ==
  LET r == handlers[h]
      globalId == extractGlobalId(r.event.dataLocation) IN
  /\ r.pc = "replicate"
  /\ r.targets[a] = "mark"
  /\ \E ok \in BOOLEAN :
       IF ok
       THEN /\ published' = markEventPublished(published, a, globalId)
            /\ UNCHANGED cacheFailed
       ELSE /\ cacheFailed' = TRUE
            /\ UNCHANGED published
  /\ handlers' = Settle(h, a)
  /\ UNCHANGED <<otherVars, webhook,
                 notifyVars, inbox, pubOp, extLeft, directLeft, replCalls,
                 replOk, lastPub, directOk, starts>>

(* ------------------------------------------------------- direct publishing *)
\* Promise.allSettled(publishPromises) has every result
Settled(st) == \A a \in AdapterSet : st[a] = "settled"

\* success only when every adapter succeeded
everySuccess(results) == \A a \in AdapterSet : results[a] = "ok"

\* publishResults.some((r) => r.success)
someSuccess(results) == \E a \in AdapterSet : results[a] = "ok"

\* publishEvent (controller): 201 when the service reports success, else 500
statusOf(success) == IF success THEN 201 ELSE 500

\* the tail of publishEventToAllAdapters and of the controller, run when the
\* last promise settles
Respond(op) ==
  IF Settled(op.st)
  THEN [op EXCEPT !.pc = "done", !.success = someSuccess(op.results),
                  !.http = statusOf(someSuccess(op.results))]
  ELSE op

\* POST /api/v1/publishEvent up to the first await of the fan-out
publishEvent(request) ==
  /\ pubOp.pc # "fanout"
  /\ directLeft > 0
  /\ directLeft' = directLeft - 1
  /\ IF extractGlobalId(request.dataLocation) = Thrown
     THEN pubOp' = [IdlePubOp EXCEPT !.pc = "done", !.request = request,
                                     !.http = 500]
     ELSE pubOp' = [IdlePubOp EXCEPT !.pc = "fanout", !.request = request,
                      !.st = [a \in AdapterSet |-> "publish"],
                      !.adapterRequest = adapterRequest(request)]
  /\ UNCHANGED <<otherVars, webhook,
                 notifyVars, published, handlers, inbox, extLeft, replCalls,
                 replOk, lastPub, directOk, starts, cacheFailed>>

\* a fan-out that marks whatever the result
cacheAlways(success) == TRUE

\* a fan-out that marks on failure instead of success
cacheOnFailure(success) == ~success

\* if (result.success) in the fan-out: whether the adapter's set is marked
cacheOnResult(success) == success

\* await client.publishEvent(adapterRequest) for one adapter
FanoutPublish(a) ==
  /\ pubOp.pc = "fanout"
  /\ pubOp.st[a] = "publish"
  /\ \E success \in BOOLEAN :
       /\ lastPub' = [lastPub EXCEPT ![a] = IF success THEN "ok" ELSE "fail"]
       /\ directOk' = IF success THEN directOk \cup {a} ELSE directOk
       /\ inbox' = [inbox EXCEPT ![a] = IF success THEN @ + 1 ELSE @]
       /\ pubOp' = Respond([pubOp EXCEPT
            !.results[a] = IF success THEN "ok" ELSE "fail",
            !.st[a] = IF cacheOnResult(success) THEN "mark" ELSE "settled"])
  /\ UNCHANGED <<otherVars, webhook,
                 notifyVars, published, handlers, extLeft, directLeft,
                 replCalls, replOk, starts, cacheFailed>>

\* a catch that turns the adapter's result into a failure
downgradeOnCacheError(results, a) == [results EXCEPT ![a] = "fail"]

\* catch (cacheError) in the fan-out: the error is logged, the result kept
caughtCacheError(results, a) == results

\* await markEventPublished(client.getName(), globalId), its failure caught
FanoutMark(a) ==
  LET globalId == extractGlobalId(pubOp.request.dataLocation) IN
  /\ pubOp.pc = "fanout"
  /\ pubOp.st[a] = "mark"
  /\ \E ok \in BOOLEAN :
       IF ok
       THEN /\ published' = markEventPublished(published, a, globalId)
            /\ pubOp' = Respond([pubOp EXCEPT !.st[a] = "settled",
                                              !.marked = @ \cup {a}])
            /\ UNCHANGED cacheFailed
       ELSE /\ pubOp' = Respond([pubOp EXCEPT !.st[a] = "settled",
                      !.results = caughtCacheError(@, a)])
            /\ cacheFailed' = TRUE
            /\ UNCHANGED published
  /\ UNCHANGED <<otherVars, webhook,
                 notifyVars, handlers, inbox, extLeft, directLeft, replCalls,
                 replOk, lastPub, directOk, starts>>

\* the bodies a consumer posts, with or without a network field
Bodies ==
  {EventOf(d, fs) : d \in DataLocations,
                    fs \in {BaseFields, BaseFields \cup {"network"}}}

\* the requests the controller sees
Requests == {validatePublishEvent(body) : body \in Bodies}

\* replication alone: the webhook is called for events born on the ledgers
Next ==
  \/ \E h \in 1..MaxHandlers, n \in AdapterSet, e \in Events :
       handleEventNotification(h, n, e)
  \/ \E h \in 1..MaxHandlers : MarkSource(h)
  \/ \E h \in 1..MaxHandlers : CheckNetwork(h)
  \/ \E h \in 1..MaxHandlers, a \in AdapterSet : ReplicatePublish(h, a)
  \/ \E h \in 1..MaxHandlers, a \in AdapterSet : ReplicateMark(h, a)

Spec == Init /\ [][Next]_vars

\* replication with the webhook called under any :network parameter, a
\* configured adapter's name or not
InitAny ==
  /\ Started
  /\ extLeft = MaxAny
  /\ directLeft = 0
  /\ notifLeft = 0

NextAny ==
  \/ \E h \in 1..MaxHandlers, n \in Networks, e \in Events :
       handleEventNotification(h, n, e)
  \/ \E h \in 1..MaxHandlers : MarkSource(h)
  \/ \E h \in 1..MaxHandlers : CheckNetwork(h)
  \/ \E h \in 1..MaxHandlers, a \in AdapterSet : ReplicatePublish(h, a)
  \/ \E h \in 1..MaxHandlers, a \in AdapterSet : ReplicateMark(h, a)

SpecAny == InitAny /\ [][NextAny]_vars

\* every awaited Redis command and adapter call of a handler settles
HandlerFairness ==
  \A h \in 1..MaxHandlers :
    /\ WF_vars(MarkSource(h))
    /\ WF_vars(CheckNetwork(h))
    /\ \A a \in AdapterSet :
         WF_vars(ReplicatePublish(h, a)) /\ WF_vars(ReplicateMark(h, a))

SpecAnyFair == SpecAny /\ HandlerFairness

\* handleIncomingEvent(e, c) called again and again for one c, each call
\* after the one before has returned
ConsecutiveNotification(h, n, e) ==
  /\ ~AnyBusy
  /\ \A m \in Networks \ {n} : starts[m] = 0
  /\ handleEventNotification(h, n, e)

NextSeq ==
  \/ \E h \in 1..MaxHandlers, n \in AdapterSet, e \in Events :
       ConsecutiveNotification(h, n, e)
  \/ \E h \in 1..MaxHandlers : MarkSource(h)
  \/ \E h \in 1..MaxHandlers : CheckNetwork(h)
  \/ \E h \in 1..MaxHandlers, a \in AdapterSet : ReplicatePublish(h, a)
  \/ \E h \in 1..MaxHandlers, a \in AdapterSet : ReplicateMark(h, a)

SpecSeq == Init /\ [][NextSeq]_vars

\* the closed loop: consumer publish requests, the adapters notifying the
\* engine of every publish they accepted, and one event born on a ledger
InitLoop ==
  /\ Started
  /\ extLeft = LoopExternal
  /\ directLeft = MaxDirect
  /\ notifLeft = 0

NextLoop ==
  \/ Next
  \/ \E h \in 1..MaxHandlers, a \in AdapterSet : AdapterNotifies(h, a)
  \/ \E request \in Requests : publishEvent(request)
  \/ \E a \in AdapterSet : FanoutPublish(a)
  \/ \E a \in AdapterSet : FanoutMark(a)

SpecLoop == InitLoop /\ [][NextLoop]_vars

\* every awaited Redis command and adapter call settles (each has a timeout),
\* and an adapter delivers the notifications it owes
LoopFairness ==
  /\ \A h \in 1..MaxHandlers :
       /\ WF_vars(MarkSource(h))
       /\ WF_vars(CheckNetwork(h))
       /\ \A a \in AdapterSet :
            WF_vars(ReplicatePublish(h, a)) /\ WF_vars(ReplicateMark(h, a))
  /\ \A a \in AdapterSet :
       /\ WF_vars(FanoutPublish(a))
       /\ WF_vars(FanoutMark(a))
       /\ WF_vars(\E h \in 1..MaxHandlers : AdapterNotifies(h, a))

SpecLoopFair == SpecLoop /\ LoopFairness

(* --------------------------------------------------- consumer subscriptions *)
\* the requests validateSubscribe lets through
SubscriptionRequests ==
  {[eventTypes |-> ts, notificationEndpoint |-> "https://desmos/callback"] :
     ts \in {<<"ProductAdded">>, <<"*">>}}

\* an id that is the same for every request
idOfFirst(made) == 1

\* uuidv4(): an id no earlier request was given
uuidv4(made) == made + 1

\* a tail that keeps the record whatever the adapters answered
SubscribedKept(op, registry) == registry

\* the tail of subscribeDesmosToEvents and of the controller, run when the
\* last adapter subscription settles: the record is deleted when none succeeded
Subscribed(op, registry) ==
  IF Settled(op.st)
  THEN IF someSuccess(op.results) THEN registry
       ELSE [registry EXCEPT ![op.id] = NoSubscription]
  ELSE registry

SubscribeResponse(op) ==
  IF Settled(op.st)
  THEN [op EXCEPT !.pc = "done", !.success = someSuccess(op.results),
                  !.http = statusOf(someSuccess(op.results))]
  ELSE op

\* POST /api/v1/subscribe up to the first await: the record is stored before
\* any adapter is asked
subscribe(request) ==
  /\ subOp.pc # "subscribing"
  /\ subsMade < MaxSubs
  /\ subsMade' = subsMade + 1
  /\ activeSubscriptions' = [activeSubscriptions EXCEPT ![uuidv4(subsMade)] =
       [eventTypes |-> request.eventTypes,
        callbackUrl |-> request.notificationEndpoint, active |-> TRUE]]
  /\ subOp' = [IdleSubOp EXCEPT !.pc = "subscribing",
                 !.id = uuidv4(subsMade),
                 !.st = [a \in AdapterSet |-> "subscribe"]]
  /\ UNCHANGED <<otherVars, webhook,
                 replVars, cacheFailed, notified, notifiers, notifLeft,
                 posts>>

\* await client.subscribe(...) for one adapter
SubscribeSettles(a) ==
  /\ subOp.pc = "subscribing"
  /\ subOp.st[a] = "subscribe"
  /\ \E success \in BOOLEAN :
       LET op == [subOp EXCEPT !.st[a] = "settled",
                     !.results[a] = IF success THEN "ok" ELSE "fail"] IN
       /\ subOp' = SubscribeResponse(op)
       /\ activeSubscriptions' = Subscribed(op, activeSubscriptions)
  /\ UNCHANGED <<otherVars, webhook,
                 replVars, cacheFailed, notified, notifiers, subsMade,
                 notifLeft, posts>>

(* --------------------------------------------------- consumer notification *)
NotifBusy(d) == notifiers[d].pc # "idle"

FreeNotifier(d) == /\ ~NotifBusy(d)
                   /\ \A k \in 1..MaxNotifiers : k < d => NotifBusy(k)

NotifReturn(d) == [notifiers EXCEPT ![d] = IdleNotifier]

Contains(seq, x) == \E k \in 1..Len(seq) : seq[k] = x

\* the filter of handleDesmosNotification
matchesSubscription(sub, event) ==
  Len(sub.eventTypes) = 0 \/ Contains(sub.eventTypes, event.eventType)

matchingSubscriptions(registry, event) ==
  {id \in 1..MaxSubs : registry[id].active
                        /\ matchesSubscription(registry[id], event)}

\* the events posted to the consumer-notification webhook
NotifEvents ==
  {Event(d, t, fs) : d \in DataLocations, t \in EventTypes,
                     fs \in {BaseFields, BaseFields \cup {"network"}}}

\* POST /internal/desmosNotification and handleDesmosNotification up to its
\* first await
handleDesmosEventNotification(d, event) ==
  /\ FreeNotifier(d)
  /\ notifLeft > 0
  /\ notifLeft' = notifLeft - 1
  /\ IF extractGlobalId(event.dataLocation) = Thrown
     THEN UNCHANGED notifiers
     ELSE notifiers' = [notifiers EXCEPT ![d] =
            [IdleNotifier EXCEPT !.pc = "isNotified", !.event = event]]
  /\ webhook' = acknowledge("desmosNotification")
  /\ UNCHANGED <<otherVars,
                 replVars, cacheFailed, notified, activeSubscriptions, subOp,
                 subsMade, posts>>

\* a handler that takes a failed lookup as "not notified" and goes on
dispatchOnError(d) == [notifiers EXCEPT ![d].pc = "markNotified"]

\* isEventNotified rethrows and the catch of handleDesmosNotification logs:
\* the invocation ends
abortNotification(d) == NotifReturn(d)

\* a handler that goes on to the mark when nothing matches
returnsIfNotified(alreadyNotified, matching) == alreadyNotified

\* the two early returns of handleDesmosNotification: the id was notified,
\* or no stored subscription matches the event
returnsEarly(alreadyNotified, matching) == alreadyNotified \/ matching = {}

\* await isEventNotified(globalId), then the dispatch: a POST is started for
\* every matching subscription
IsNotified(d) ==
  LET r == notifiers[d]
      globalId == extractGlobalId(r.event.dataLocation) IN
  /\ r.pc = "isNotified"
  /\ \E ok \in BOOLEAN :
       IF ok
       THEN LET alreadyNotified == globalId \in notified
                matching == matchingSubscriptions(activeSubscriptions, r.event) IN
            /\ IF returnsEarly(alreadyNotified, matching)
               THEN /\ notifiers' = NotifReturn(d)
                    /\ UNCHANGED posts
               ELSE /\ notifiers' = [notifiers EXCEPT ![d].pc = "dispatch",
                                                      ![d].pending = matching,
                      ![d].body = stripNetworkParameter(r.event)]
                    /\ posts' = [id \in 1..MaxSubs |->
                                   IF id \in matching THEN posts[id] + 1
                                   ELSE posts[id]]
            /\ UNCHANGED cacheFailed
       ELSE /\ notifiers' = abortNotification(d)
            /\ cacheFailed' = TRUE
            /\ UNCHANGED posts
  /\ UNCHANGED <<otherVars, webhook,
                 replVars, notified, activeSubscriptions, subOp, subsMade,
                 notifLeft>>

\* a dispatch that goes on to the mark as soon as one POST has settled
afterFirstPost(pending) == "markNotified"

\* await Promise.allSettled(notificationPromises): the handler goes on to
\* markEventNotified when no POST is pending
afterPost(pending) == IF pending = {} THEN "markNotified" ELSE "dispatch"

\* one POST of notifyDesmos settles, delivered or not (its error is caught)
PostSettles(d, id) ==
  LET r == notifiers[d] IN
  /\ r.pc = "dispatch"
  /\ id \in r.pending
  /\ \E delivered \in BOOLEAN :
       notifiers' = [notifiers EXCEPT ![d].pending = r.pending \ {id},
                       ![d].failed = r.failed \/ ~delivered,
                       ![d].pc = afterPost(r.pending \ {id})]
  /\ UNCHANGED <<otherVars, webhook,
                 replVars, cacheFailed, notified, activeSubscriptions, subOp,
                 subsMade, notifLeft, posts>>

\* a write that never reaches the set of notified ids
markEventNotifiedDropped(set, globalId) == set

\* redis.sAdd(NOTIFIED_EVENTS_KEY, globalId) when the command succeeds
markEventNotified(set, globalId) == sAdd(set, globalId)

\* a handler that also adds the id to the published set of the first adapter
MarkNotifiedAndPublished(d) ==
  LET globalId == extractGlobalId(notifiers[d].event.dataLocation) IN
  /\ notifiers[d].pc = "markNotified"
  /\ notified' = markEventNotified(notified, globalId)
  /\ published' = markEventPublished(published, getAdapterNames[1], globalId)
  /\ notifiers' = NotifReturn(d)
  /\ UNCHANGED <<otherVars, webhook, cacheFailed, handlers, inbox, pubOp,
                 extLeft, directLeft, replCalls, replOk, lastPub, directOk,
                 starts, activeSubscriptions, subOp, subsMade, notifLeft,
                 posts>>

\* await markEventNotified(globalId)
MarkNotified(d) ==
  LET r == notifiers[d]
      globalId == extractGlobalId(r.event.dataLocation) IN
  /\ r.pc = "markNotified"
  /\ \E ok \in BOOLEAN :
       IF ok
       THEN /\ notified' = markEventNotified(notified, globalId)
            /\ UNCHANGED cacheFailed
       ELSE /\ cacheFailed' = TRUE
            /\ UNCHANGED notified
  /\ notifiers' = NotifReturn(d)
  /\ UNCHANGED <<otherVars, webhook,
                 replVars, activeSubscriptions, subOp, subsMade, notifLeft,
                 posts>>

InitNotify ==
  /\ Started
  /\ extLeft = 0
  /\ directLeft = 0
  /\ notifLeft = MaxNotifications

NextNotify ==
  \/ \E request \in SubscriptionRequests : subscribe(request)
  \/ \E a \in AdapterSet : SubscribeSettles(a)
  \/ \E d \in 1..MaxNotifiers, e \in NotifEvents :
       handleDesmosEventNotification(d, e)
  \/ \E d \in 1..MaxNotifiers : IsNotified(d)
  \/ \E d \in 1..MaxNotifiers, id \in 1..MaxSubs : PostSettles(d, id)
  \/ \E d \in 1..MaxNotifiers : MarkNotified(d)

SpecNotify == InitNotify /\ [][NextNotify]_vars

\* handleDesmosNotification called for the ProductAdded event of the id,
\* each call after the one before has returned and after a subscription
\* was stored
ConsecutiveDesmosNotification(d, event) ==
  /\ \A k \in 1..MaxNotifiers : ~NotifBusy(k)
  /\ subOp.pc # "subscribing"
  /\ \E id \in 1..MaxSubs : activeSubscriptions[id].active
  /\ event.eventType = "ProductAdded"
  /\ extractGlobalId(event.dataLocation) = GlobalId
  /\ handleDesmosEventNotification(d, event)

NextNotifySeq ==
  \/ \E request \in SubscriptionRequests : subscribe(request)
  \/ \E a \in AdapterSet : SubscribeSettles(a)
  \/ \E d \in 1..MaxNotifiers, e \in NotifEvents :
       ConsecutiveDesmosNotification(d, e)
  \/ \E d \in 1..MaxNotifiers : IsNotified(d)
  \/ \E d \in 1..MaxNotifiers, id \in 1..MaxSubs : PostSettles(d, id)
  \/ \E d \in 1..MaxNotifiers : MarkNotified(d)

SpecNotifySeq == InitNotify /\ [][NextNotifySeq]_vars

(* ---------------------------------------------------------- adapter client *)
\* envConfig.retry.maxAttempts when MAX_RETRY_ATTEMPTS is unset
maxAttempts == 3

\* how one HTTP attempt ends: a 2xx answer, a 4xx or 5xx answer, no answer
Outcomes == {"ok", "4xx", "5xx", "network"}

Operations == {"publishEvent", "subscribe"}

\* a wrapper that gives up at the first error
retriesNever(error, attempt) == FALSE

\* if (attempt < maxAttempts) in the catch of retryCall: the loop goes round
\* again, whatever the error
retries(error, attempt) == attempt < maxAttempts

\* a catch that passes the error on to the caller
rethrown(adapter, operation, error) == [thrown |-> error]

\* the catch of publishEvent and of subscribe: what the caller gets
caught(adapter, operation, error) ==
  IF operation = "publishEvent"
  THEN [adapter |-> adapter, success |-> FALSE, error |-> error]
  ELSE [returned |-> FALSE]

\* what the caller gets when an attempt succeeded
succeeded(adapter, operation) ==
  IF operation = "publishEvent"
  THEN [adapter |-> adapter, success |-> TRUE, timestamp |-> 1]
  ELSE [returned |-> TRUE]

\* client.publishEvent(request) or client.subscribe(request) up to the first
\* await of retryCall
Invoke(a, operation) ==
  /\ calls[a].pc \in {"idle", "returned"}
  /\ callsLeft > 0
  /\ callsLeft' = callsLeft - 1
  /\ calls' = [calls EXCEPT ![a] =
       [IdleCall EXCEPT !.pc = "attempt", !.operation = operation,
                        !.attempt = 1]]
  /\ UNCHANGED <<replVars, notifyVars, cacheFailed, webhook, boot>>

\* await fn() settles: the result is returned, or the error is kept and the
\* wrapper waits, or after the last attempt throws into the catch of the
\* operation
Attempt(a) ==
  LET c == calls[a] IN
  /\ c.pc = "attempt"
  /\ \E outcome \in Outcomes :
       IF outcome = "ok"
       THEN calls' = [calls EXCEPT ![a].pc = "returned",
                                   ![a].made = c.made + 1,
                                   ![a].result = succeeded(a, c.operation)]
       ELSE IF retries(outcome, c.attempt)
       THEN calls' = [calls EXCEPT ![a].pc = "delay",
                                   ![a].made = c.made + 1,
                                   ![a].errors = c.errors \cup {outcome},
                                   ![a].lastError = outcome]
       ELSE calls' = [calls EXCEPT ![a].pc = "returned",
                                   ![a].made = c.made + 1,
                                   ![a].errors = c.errors \cup {outcome},
                                   ![a].lastError = outcome,
                                   ![a].result = caught(a, c.operation, outcome)]
  /\ UNCHANGED <<replVars, notifyVars, cacheFailed, webhook, callsLeft, boot>>

\* the timer of delayMs * attempt fires and the loop starts the next attempt
Delay(a) ==
  /\ calls[a].pc = "delay"
  /\ calls' = [calls EXCEPT ![a].pc = "attempt",
                            ![a].attempt = calls[a].attempt + 1]
  /\ UNCHANGED <<replVars, notifyVars, cacheFailed, webhook, callsLeft, boot>>

InitClient ==
  /\ Fresh
  /\ extLeft = 0
  /\ directLeft = 0
  /\ notifLeft = 0
  /\ callsLeft = MaxCalls
  /\ boot = Running

NextClient ==
  \/ \E a \in AdapterSet, operation \in Operations : Invoke(a, operation)
  \/ \E a \in AdapterSet : Attempt(a)
  \/ \E a \in AdapterSet : Delay(a)

SpecClient == InitClient /\ [][NextClient]_vars

(* --------------------------------------------------------------- bootstrap *)
NodeEnvs == {"production", "development", "test"}

\* INTERNAL_SUBSCRIPTION_EVENT_TYPES: unset, or one event type
EventTypesEnvs == {"", "ProductAdded"}

\* domeEventTypes: the types of the variable, or the wildcard when it is unset
domeEventTypes(eventTypesEnv) ==
  IF eventTypesEnv # "" THEN <<eventTypesEnv>> ELSE <<"*">>

\* an endpoint that is the same for every adapter
notificationEndpointOfFirst(network) ==
  <<iedBaseUrl, "/internal/eventNotification/", getAdapterNames[1]>>

\* `${iedBaseUrl}/internal/eventNotification/${network}`
notificationEndpoint(network) ==
  <<iedBaseUrl, "/internal/eventNotification/", network>>

\* the request setupInternalSubscriptions passes to client.subscribe
subscriptionRequest(network, eventTypesEnv) ==
  [eventTypes |-> domeEventTypes(eventTypesEnv),
   notificationEndpoint |-> notificationEndpoint(network),
   metadata |-> <<"sbx">>]

\* an engine that starts without a healthy adapter in every environment
degradedAlways(nodeEnv) == TRUE

\* if (envConfig.nodeEnv === 'production') throw, else log and go on
degradedAllowed(nodeEnv) == nodeEnv # "production"

healthyCount(healthResults) ==
  Cardinality({a \in AdapterSet : healthResults[a] = "up"})

\* initialize() after healthCheckAll, up to the first await of
\* setupInternalSubscriptions: every registered client is asked to subscribe
afterHealthCheck(b) ==
  IF healthyCount(b.healthResults) = 0
  THEN IF degradedAllowed(b.nodeEnv)
       THEN [b EXCEPT !.pc = "running", !.degraded = TRUE]
       ELSE [b EXCEPT !.pc = "failed"]
  ELSE [b EXCEPT !.pc = "subscribe",
          !.st = [a \in AdapterSet |-> "subscribe"],
          !.requests = [a \in AdapterSet |->
                          subscriptionRequest(a, b.eventTypesEnv)],
          !.subscribes = [a \in AdapterSet |-> b.subscribes[a] + 1]]

\* await connectRedis(): a failure ends the start in every environment
ConnectRedis ==
  /\ boot.pc = "connectRedis"
  /\ \E ok \in BOOLEAN :
       boot' = IF ok THEN [boot EXCEPT !.pc = "healthCheck", !.i = 1,
                                       !.redis = "up"]
               ELSE [boot EXCEPT !.pc = "failed", !.redis = "down"]
  /\ UNCHANGED <<replVars, notifyVars, cacheFailed, webhook, calls, callsLeft>>

\* one await client.healthCheck() of healthCheckAll; after the last one,
\* initialize goes on to the count of healthy adapters
HealthCheck ==
  LET a == getAdapterNames[boot.i] IN
  /\ boot.pc = "healthCheck"
  /\ \E isHealthy \in BOOLEAN :
       LET b == [boot EXCEPT !.healthResults[a] =
                   IF isHealthy THEN "up" ELSE "down"] IN
       boot' = IF boot.i < Len(getAdapterNames)
               THEN [b EXCEPT !.i = boot.i + 1]
               ELSE afterHealthCheck(b)
  /\ UNCHANGED <<replVars, notifyVars, cacheFailed, webhook, calls, callsLeft>>

\* await client.subscribe(...) of one adapter settles; with the last one
\* setupInternalSubscriptions returns or throws, and initialize returns
\* either way
BootSubscribeSettles(a) ==
  /\ boot.pc = "subscribe"
  /\ boot.st[a] = "subscribe"
  /\ \E success \in BOOLEAN :
       LET b == [boot EXCEPT !.st[a] = "settled",
                   !.results[a] = IF success THEN "ok" ELSE "fail"] IN
       boot' = IF Settled(b.st) THEN [b EXCEPT !.pc = "running"] ELSE b
  /\ UNCHANGED <<replVars, notifyVars, cacheFailed, webhook, calls, callsLeft>>

InitBoot ==
  /\ Fresh
  /\ extLeft = 0
  /\ directLeft = 0
  /\ notifLeft = 0
  /\ callsLeft = 0
  /\ \E nodeEnv \in NodeEnvs, eventTypesEnv \in EventTypesEnvs :
       boot = BootBegin(nodeEnv, eventTypesEnv)

NextBoot ==
  \/ ConnectRedis
  \/ HealthCheck
  \/ \E a \in AdapterSet : BootSubscribeSettles(a)

SpecBoot == InitBoot /\ [][NextBoot]_vars

(* ------------------------------------------------------------- every flow *)
\* no request is being served
Quiet ==
  /\ ~AnyBusy
  /\ subOp.pc # "subscribing"
  /\ \A d \in 1..MaxNotifiers : ~NotifBusy(d)

\* every route of the engine in one run, each request served after the one
\* before was answered
InitFlows ==
  /\ Started
  /\ extLeft = LoopExternal
  /\ directLeft = MaxDirect
  /\ notifLeft = MaxNotifications

NextFlows ==
  \/ /\ Quiet
     /\ \/ \E h \in 1..MaxHandlers, n \in AdapterSet, e \in Events :
             handleEventNotification(h, n, e)
        \/ \E h \in 1..MaxHandlers, a \in AdapterSet : AdapterNotifies(h, a)
        \/ \E request \in Requests : publishEvent(request)
        \/ \E request \in SubscriptionRequests : subscribe(request)
        \/ \E d \in 1..MaxNotifiers, e \in NotifEvents :
             handleDesmosEventNotification(d, e)
  \/ \E h \in 1..MaxHandlers : MarkSource(h)
  \/ \E h \in 1..MaxHandlers : CheckNetwork(h)
  \/ \E h \in 1..MaxHandlers, a \in AdapterSet : ReplicatePublish(h, a)
  \/ \E h \in 1..MaxHandlers, a \in AdapterSet : ReplicateMark(h, a)
  \/ \E a \in AdapterSet : FanoutPublish(a)
  \/ \E a \in AdapterSet : FanoutMark(a)
  \/ \E a \in AdapterSet : SubscribeSettles(a)
  \/ \E d \in 1..MaxNotifiers : IsNotified(d)
  \/ \E d \in 1..MaxNotifiers, id \in 1..MaxSubs : PostSettles(d, id)
  \/ \E d \in 1..MaxNotifiers : MarkNotified(d)

SpecFlows == InitFlows /\ [][NextFlows]_vars

(* --------------------------------------------------------- properties: C1 *)
\* C1, under SpecNotify: no subscription's callback is POSTed more than once
\* for the id
C1_AtMostOncePerId == \A id \in 1..MaxSubs : posts[id] <= 1

(* ----------------------------------------------------- properties: C2-C10 *)
AllReturned == \A h \in 1..MaxHandlers : ~Busy(h)
SomeHandled == \E n \in Networks : starts[n] > 0
OnChain(a) == GlobalId \in published[a]

C3_AtMostOneReplication == \A a \in AdapterSet : replOk[a] <= 1

\* C4 as stated, under SpecSeq: consecutive calls from one source make at most
\* one publishEvent call per target
C4_AtMostOneCall == \A a \in AdapterSet : replCalls[a] <= 1

\* C4 amended, under SpecSeq: consecutive calls make a publishEvent call to a
\* target only while the target's set lacks the id
C4_CallOnlyWhileMissing ==
  [][\A a \in AdapterSet : replCalls'[a] # replCalls[a] => ~OnChain(a)]_vars

C4_Witness ==
  /\ AllReturned
  /\ starts["hashnet"] = 2
  /\ replCalls["alastria"] = 1 /\ replOk["alastria"] = 1
  /\ OnChain("alastria")

\* C5: when exactly one notification from hashnet and one from alastria have
\* been handled for the id and no Redis command failed, no publishEvent call
\* was made and both sets hold the id
C5_NoPublishInS3 ==
  (/\ starts = [n \in Networks |-> IF n \in AdapterSet THEN 1 ELSE 0]
   /\ AllReturned /\ ~cacheFailed)
  => /\ \A a \in AdapterSet : replCalls[a] = 0
     /\ \A a \in AdapterSet : published[a] = {GlobalId}

\* C6: a handleIncomingEvent call that began when every configured chain's
\* set held the id changes no cache set and makes no publishEvent call
C6_NoEffectWhenOnAllChains ==
  [][\A h \in 1..MaxHandlers :
       (handlers[h].full /\ handlers'[h] # handlers[h])
         => (published' = published /\ replCalls' = replCalls)]_vars

C6_Witness ==
  \E h \in 1..MaxHandlers :
    /\ handlers[h].full /\ handlers[h].pc = "check" /\ handlers[h].i = 2
    /\ handlers[h].sourceNetwork = "alastria"
    /\ replOk["alastria"] = 1

\* the notifications that can find an adapter's set without the id come from
\* the events born on the other ledger and from the consumer's requests
RepublishBound == LoopExternal + MaxDirect

\* C7, under SpecLoop: with every accepted publishEvent call notified back to
\* the engine, the replication calls to an adapter never exceed RepublishBound
\* (the guard replCalls < CallCap never binds)
C7_RepublishBounded == \A a \in AdapterSet : replCalls[a] <= RepublishBound

C7_Witness ==
  /\ AllReturned /\ pubOp.pc = "idle"
  /\ extLeft = LoopExternal - 1
  /\ starts["hashnet"] = 1 /\ starts["alastria"] = 1
  /\ replOk["alastria"] = 1 /\ replCalls["hashnet"] = 0
  /\ inbox = [a \in AdapterSet |-> 0]
  /\ \A a \in AdapterSet : OnChain(a)

\* C8: no step removes an id from a network's set
C8_NeverRemoved ==
  [][\A n \in Networks : published[n] \subseteq published'[n]]_vars

C8_Witness ==
  \E h \in 1..MaxHandlers :
    /\ handlers[h].pc = "check" /\ handlers[h].i = 2
    /\ handlers[h].sourceNetwork = "hashnet"
    /\ handlers[h].missingNetworks = <<>>

PublishAccepted(a) == a \in directOk \/ replOk[a] > 0

\* C9 as stated: the id is in an adapter's set exactly when a direct or a
\* replication publishEvent call to that adapter succeeded
C9_InSetIffPublishAccepted ==
  \A a \in AdapterSet : OnChain(a) <=> PublishAccepted(a)

\* C9 amended: the id is in an adapter's set only if a direct or a
\* replication publishEvent call to the adapter succeeded or a notification
\* was received from the adapter
C9_InSetOnlyIfObserved ==
  \A a \in AdapterSet : OnChain(a) => (PublishAccepted(a) \/ starts[a] > 0)

C9_Witness ==
  /\ OnChain("hashnet") /\ ~PublishAccepted("hashnet")
  /\ OnChain("alastria") /\ PublishAccepted("alastria") /\ starts["alastria"] = 0

MixedResult ==
  /\ pubOp.pc = "done"
  /\ \E a \in AdapterSet : pubOp.results[a] = "ok"
  /\ \E a \in AdapterSet : pubOp.results[a] = "fail"

FannedOut == pubOp.st # NoTargets

\* C11, under SpecLoop: the fan-out answers only when every adapter's promise
\* has settled; success is reported exactly when some adapter accepted the
\* publish, with 201 and a result for every adapter, and 500 otherwise
C11_SuccessIffSomeAccepted ==
  /\ (FannedOut /\ pubOp.http # 0) => Settled(pubOp.st)
  /\ (FannedOut /\ pubOp.pc = "done") =>
       /\ pubOp.success <=> \E a \in AdapterSet : pubOp.results[a] = "ok"
       /\ pubOp.success =>
            /\ pubOp.http = 201
            /\ \A a \in AdapterSet : pubOp.results[a] \in {"ok", "fail"}
       /\ ~pubOp.success => pubOp.http = 500

C11_Witness ==
  /\ pubOp.pc = "done" /\ pubOp.http = 201 /\ pubOp.success
  /\ pubOp.results["hashnet"] = "ok" /\ pubOp.results["alastria"] = "fail"

MarkFailedFor(a) ==
  /\ pubOp.pc = "fanout" /\ pubOp.st[a] = "mark"
  /\ pubOp'.st[a] = "settled" /\ a \notin pubOp'.marked

\* C12, under SpecLoop: a failed markEventPublished after an accepted publish
\* leaves every adapter's result as it was, the adapter's own still a
\* success, and the answer, when this was the last promise, a success
C12_MarkFailureKeepsResult ==
  [][\A a \in AdapterSet :
       MarkFailedFor(a) =>
         /\ pubOp'.results = pubOp.results
         /\ pubOp'.results[a] = "ok"
         /\ pubOp'.pc = "done" => (pubOp'.success /\ pubOp'.http = 201)]_vars

C12_Witness ==
  /\ pubOp.pc = "done" /\ pubOp.http = 201 /\ cacheFailed
  /\ pubOp.results["alastria"] = "ok" /\ "alastria" \notin pubOp.marked
  /\ pubOp.results["hashnet"] = "ok" /\ "hashnet" \in pubOp.marked

AllOnChain == \A a \in AdapterSet : OnChain(a)
SomeReplicationFailed == \E a \in AdapterSet : replCalls[a] > replOk[a]

\* C13, under SpecLoopFair: after a fan-out with successes and failures,
\* with the notifications of the accepting ledgers delivered, the cache up
\* and the adapters accepting the replication calls, every configured
\* chain's set comes to hold the id
C13_EventuallyRepaired ==
  MixedResult ~> (AllOnChain \/ cacheFailed \/ SomeReplicationFailed)

C13_Witness ==
  /\ MixedResult /\ ~cacheFailed /\ ~SomeReplicationFailed /\ AllOnChain
  /\ pubOp.results["hashnet"] = "fail" /\ replOk["hashnet"] = 1
  /\ starts["hashnet"] = 0 /\ extLeft = LoopExternal

\* handler h's publishEvent call to a settles in this step
PublishSettles(h, a) ==
  /\ handlers[h].pc = "replicate" /\ handlers[h].targets[a] = "publish"
  /\ handlers'[h].targets[a] # "publish"

\* C14, under SpecAny: when a replication publishEvent call fails, no set
\* changes (the source stays marked, the target is not marked and no mark
\* of it follows) and the handler's other targets stay as they were; a call
\* that succeeds is followed by the mark of its target
C14_FailureIsPerTarget ==
  [][\A h \in 1..MaxHandlers, a \in AdapterSet :
       PublishSettles(h, a) =>
         IF lastPub'[a] = "fail"
         THEN /\ published' = published
              /\ GlobalId \in published'[handlers[h].sourceNetwork]
              /\ handlers'[h].targets[a] = "-"
              /\ \A b \in AdapterSet \ {a} :
                   handlers'[h].targets[b] = handlers[h].targets[b]
         ELSE handlers'[h].targets[a] = "mark"]_vars

C14_Witness ==
  /\ AllReturned /\ ~cacheFailed
  /\ starts = [n \in Networks |-> IF n = "fabric" THEN 1 ELSE 0]
  /\ replCalls = [a \in AdapterSet |-> 1]
  /\ lastPub["hashnet"] = "fail" /\ lastPub["alastria"] = "ok"
  /\ published = [n \in Networks |-> IF n = "hashnet" THEN {} ELSE {GlobalId}]

\* handler h is about to look up t, which is absent after a failed call
LooksUpFailedTarget(h, t) ==
  /\ handlers[h].pc = "check" /\ getAdapterNames[handlers[h].i] = t
  /\ ~OnChain(t) /\ lastPub[t] = "fail"

\* handler h holds t among its missing networks and has not called it yet
OwesCall(h, t) ==
  /\ Contains(handlers[h].missingNetworks, t)
  /\ handlers[h].pc = "replicate" => handlers[h].targets[t] = "publish"

\* C15, under SpecAnyFair: a handleIncomingEvent call whose lookup finds t
\* absent after a failed publishEvent call keeps t as a target; it stops
\* owing the call to t only by making it or by a failed Redis command, and
\* every call returns, owing nothing
C15_RetriesFailedTarget ==
  /\ [][\A h \in 1..MaxHandlers, t \in AdapterSet :
          /\ (LooksUpFailedTarget(h, t) /\ handlers'[h] # handlers[h]
                /\ ~cacheFailed')
             => Contains(handlers'[h].missingNetworks, t)
          /\ (OwesCall(h, t) /\ ~OwesCall(h, t)')
             => (replCalls'[t] = replCalls[t] + 1 \/ cacheFailed')]_vars
  /\ []<>AllReturned

C15_Witness ==
  /\ AllReturned /\ ~cacheFailed
  /\ starts["alastria"] = 1 /\ starts["fabric"] = 1 /\ starts["hashnet"] = 0
  /\ replCalls["hashnet"] = 2 /\ replOk["hashnet"] = 1 /\ OnChain("hashnet")
  /\ lastPub["hashnet"] = "ok"

\* C16, under SpecAny: no handleIncomingEvent call holds its own source
\* among its missing networks or among the targets of its publishEvent calls
C16_NeverTargetsSource ==
  \A h \in 1..MaxHandlers :
    Busy(h) =>
      /\ ~Contains(handlers[h].missingNetworks, handlers[h].sourceNetwork)
      /\ handlers[h].sourceNetwork \in AdapterSet =>
           handlers[h].targets[handlers[h].sourceNetwork] = "-"

C16_Witness ==
  \E h \in 1..MaxHandlers :
    /\ handlers[h].pc = "replicate" /\ handlers[h].sourceNetwork = "hashnet"
    /\ handlers[h].missingNetworks = <<"alastria">>
    /\ handlers[h].targets["alastria"] = "mark"

\* C17, under SpecAny: a handleIncomingEvent call makes no publishEvent call
\* before its lookups are done, and the step in which a lookup fails ends
\* the call without one
C17_LookupFailureAborts ==
  [][\A h \in 1..MaxHandlers :
       /\ handlers[h].pc \in {"markSource", "check"} =>
            handlers[h].targets = NoTargets
       /\ (handlers[h].pc = "check" /\ handlers'[h] # handlers[h]
             /\ ~cacheFailed /\ cacheFailed')
          => (handlers'[h] = IdleHandler /\ replCalls' = replCalls)]_vars

C17_Witness ==
  /\ AllReturned /\ cacheFailed
  /\ starts = [n \in Networks |-> IF n = "hashnet" THEN 1 ELSE 0]
  /\ extLeft = MaxAny - 1
  /\ OnChain("hashnet") /\ ~OnChain("alastria")
  /\ replCalls = [a \in AdapterSet |-> 0]

\* C18, under SpecNotify: markEventNotified is awaited only with no POST of
\* the dispatch pending, the set gains the id only in that step, and the
\* handler goes on to it when the last POST settles, delivered or not
C18_MarkAfterAllSettled ==
  [][\A d \in 1..MaxNotifiers :
       /\ notifiers[d].pc = "markNotified" => notifiers[d].pending = {}
       /\ (notifiers[d].pc = "dispatch" /\ notifiers'[d] # notifiers[d]) =>
            IF notifiers'[d].pending = {}
            THEN notifiers'[d].pc = "markNotified"
            ELSE notifiers'[d].pc = "dispatch" /\ notified' = notified
       /\ (notified' # notified /\ notifiers'[d] # notifiers[d]) =>
            notifiers[d].pc = "markNotified"]_vars

C18_Witness ==
  \E d \in 1..MaxNotifiers :
    /\ notifiers[d].pc = "markNotified" /\ notifiers[d].failed
    /\ posts = [id \in 1..MaxSubs |-> 1]

NotifiersIdle == \A d \in 1..MaxNotifiers : ~NotifBusy(d)

OnlyProductAddedSubscription ==
  /\ subsMade = 1 /\ subOp.pc = "done"
  /\ activeSubscriptions[1].active
  /\ activeSubscriptions[1].eventTypes = <<"ProductAdded">>

\* C19, under SpecNotifySeq: with one subscription for ProductAdded, after
\* two consecutive handleDesmosNotification calls for the ProductAdded event
\* of the id, with no Redis command failed, the callback was POSTed exactly
\* once and notifiedEvents holds the id
C19_SecondCallSkipped ==
  (/\ OnlyProductAddedSubscription
   /\ notifLeft = MaxNotifications - 2
   /\ NotifiersIdle /\ ~cacheFailed)
  => (posts[1] = 1 /\ GlobalId \in notified)

C19_Witness ==
  /\ OnlyProductAddedSubscription
  /\ notifLeft = MaxNotifications - 2
  /\ NotifiersIdle /\ ~cacheFailed
  /\ posts[1] = 1 /\ notified = {GlobalId}

\* C20, under SpecNotify: when handleDesmosNotification finds the id not yet
\* notified, the callback of every stored subscription whose eventTypes
\* holds "*" is POSTed, whatever the event's type
C20_WildcardMatchesEveryType ==
  [][\A d \in 1..MaxNotifiers, id \in 1..MaxSubs :
       (/\ notifiers[d].pc = "isNotified" /\ notifiers'[d] # notifiers[d]
        /\ ~cacheFailed' /\ GlobalId \notin notified
        /\ activeSubscriptions[id].active
        /\ Contains(activeSubscriptions[id].eventTypes, "*"))
       => posts'[id] = posts[id] + 1]_vars

(* ---------------------------------------------------- properties: C21-C30 *)
SameConsumer(id1, id2) ==
  /\ id1 # id2
  /\ activeSubscriptions[id1].active /\ activeSubscriptions[id2].active
  /\ activeSubscriptions[id1].callbackUrl = activeSubscriptions[id2].callbackUrl
  /\ activeSubscriptions[id1].eventTypes = activeSubscriptions[id2].eventTypes

\* C21, under SpecNotify: a subscribe request is stored under an id no stored
\* record has and leaves the other records as they are, and a dispatch for
\* an event that two records of one consumer list POSTs once for each
C21_TwoSubscriptionsTwoPosts ==
  [][/\ subsMade' # subsMade =>
          /\ ~activeSubscriptions[subOp'.id].active
          /\ activeSubscriptions'[subOp'.id].active
          /\ \A id \in 1..MaxSubs \ {subOp'.id} :
               activeSubscriptions'[id] = activeSubscriptions[id]
     /\ \A d \in 1..MaxNotifiers, id1, id2 \in 1..MaxSubs :
          (/\ notifiers[d].pc = "isNotified" /\ notifiers'[d] # notifiers[d]
           /\ ~cacheFailed' /\ GlobalId \notin notified
           /\ SameConsumer(id1, id2)
           /\ Contains(activeSubscriptions[id1].eventTypes,
                       notifiers[d].event.eventType))
          => /\ posts'[id1] = posts[id1] + 1
             /\ posts'[id2] = posts[id2] + 1]_vars

C21_Witness ==
  /\ SameConsumer(1, 2) /\ subsMade = 2 /\ subOp.pc = "done"
  /\ activeSubscriptions[1].eventTypes = <<"ProductAdded">>
  /\ notifLeft = MaxNotifications - 1
  /\ posts[1] = 1 /\ posts[2] = 1

\* C22, under SpecNotify: once subscribeDesmosToEvents has returned, the
\* record of the request is in the registry and the answer is 201 when some
\* adapter subscription succeeded; the record is gone and the answer is 500
\* when all failed
C22_RecordKeptIffSomeSubscribed ==
  subOp.pc = "done" =>
    IF \E a \in AdapterSet : subOp.results[a] = "ok"
    THEN /\ activeSubscriptions[subOp.id].active
         /\ subOp.success /\ subOp.http = 201
    ELSE /\ ~activeSubscriptions[subOp.id].active
         /\ ~subOp.success /\ subOp.http = 500

C22_Witness ==
  /\ subOp.pc = "done" /\ subOp.http = 500 /\ subOp.id = 2
  /\ \A a \in AdapterSet : subOp.results[a] = "fail"
  /\ activeSubscriptions[1].active /\ ~activeSubscriptions[2].active

\* C23, under SpecFlows: no publishRequest of a replication, no adapterRequest
\* of a direct publish and no body POSTed to a consumer callback has a network
\* field, whatever the inbound event or request had, and the cache sets hold
\* global ids only, never the value of a network field
C23_NoNetworkLeavesEngine ==
  /\ \A h \in 1..MaxHandlers :
       handlers[h].pc = "replicate" =>
         "network" \notin DOMAIN handlers[h].publishRequest
  /\ pubOp.pc = "fanout" => "network" \notin DOMAIN pubOp.adapterRequest
  /\ \A d \in 1..MaxNotifiers :
       notifiers[d].pc = "dispatch" => "network" \notin DOMAIN notifiers[d].body
  /\ \A n \in Networks : published[n] \subseteq GlobalIds
  /\ notified \subseteq GlobalIds

C23_Witness ==
  /\ \E a \in AdapterSet : replCalls[a] > 0
  /\ directOk # {}
  /\ \E a \in AdapterSet : published[a] = GlobalIds
  /\ \E d \in 1..MaxNotifiers :
       /\ notifiers[d].pc = "dispatch"
       /\ "network" \in DOMAIN notifiers[d].event
       /\ DOMAIN notifiers[d].body = BaseFields

Returned(a) == calls[a].pc = "returned"

\* what the caller of a returned invocation reads as its success
Ok(a) ==
  IF calls[a].operation = "publishEvent" THEN calls[a].result.success
  ELSE calls[a].result.returned

\* C24, under SpecClient: an invocation of publishEvent ends by returning a
\* result to its caller, never by throwing: the result names the adapter and
\* has a success flag, and when the attempts are used up it has success
\* false and the error of the last attempt
C24_PublishNeverThrows ==
  \A a \in AdapterSet :
    (Returned(a) /\ calls[a].operation = "publishEvent") =>
      /\ DOMAIN calls[a].result \in {{"adapter", "success", "timestamp"},
                                     {"adapter", "success", "error"}}
      /\ calls[a].result.adapter = a
      /\ calls[a].result.success \in BOOLEAN
      /\ ~calls[a].result.success =>
           /\ "error" \in DOMAIN calls[a].result
           /\ calls[a].result.error = calls[a].lastError
           /\ calls[a].result.error \in Outcomes \ {"ok"}

C24_Witness ==
  \E a \in AdapterSet :
    /\ Returned(a) /\ calls[a].operation = "publishEvent"
    /\ calls[a].made = maxAttempts
    /\ calls[a].result = [adapter |-> a, success |-> FALSE, error |-> "network"]

\* C25, under SpecClient: an invocation makes at most maxAttempts HTTP
\* attempts; one that returns success made its last attempt when that attempt
\* succeeded, and one that returns failure without having met a 4xx made
\* exactly maxAttempts attempts
C25_AtMostMaxAttempts ==
  \A a \in AdapterSet :
    /\ calls[a].made <= maxAttempts
    /\ calls[a].pc = "attempt" => calls[a].made = calls[a].attempt - 1
    /\ calls[a].pc = "delay" => calls[a].made = calls[a].attempt
    /\ Returned(a) =>
         /\ calls[a].made = calls[a].attempt
         /\ Ok(a) => Cardinality(calls[a].errors) <= calls[a].made - 1
         /\ (~Ok(a) /\ "4xx" \notin calls[a].errors) =>
              calls[a].made = maxAttempts

C25_Witness ==
  /\ Returned("hashnet") /\ Ok("hashnet")
  /\ calls["hashnet"].made = 2 /\ calls["hashnet"].errors = {"5xx"}
  /\ Returned("alastria") /\ ~Ok("alastria")
  /\ calls["alastria"].made = maxAttempts
  /\ calls["alastria"].errors = {"5xx", "network"}

\* a step that takes a request of the replication webhook
AcceptsEvent ==
  extLeft' # extLeft \/ \E a \in AdapterSet : inbox'[a] < inbox[a]

\* a step that takes a request of the consumer-notification webhook
AcceptsDesmos == notifLeft' # notifLeft

\* a step in which a Redis command or an adapter call of a started
\* handleIncomingEvent settles
ReplicationWork ==
  \E h \in 1..MaxHandlers : Busy(h) /\ handlers'[h] # handlers[h]

\* a step in which a Redis command or a POST of a started
\* handleDesmosNotification settles
DesmosWork ==
  \E d \in 1..MaxNotifiers : NotifBusy(d) /\ notifiers'[d] # notifiers[d]

C28_MissingGlobalIdFailsFirst ==
  [][(/\ directLeft' # directLeft
      /\ pubOp'.request.dataLocation \in {[hl |-> NoHl], [hl |-> <<"">>]})
     => /\ pubOp'.pc = "done" /\ pubOp'.http = 500 /\ ~pubOp'.success
        /\ pubOp'.st = NoTargets /\ pubOp'.results = NoResults
        /\ published' = published
        /\ lastPub' = lastPub /\ directOk' = directOk /\ inbox' = inbox]_vars

C28_Witness ==
  /\ pubOp.pc = "done" /\ pubOp.http = 500
  /\ pubOp.request.dataLocation = [hl |-> NoHl]
  /\ pubOp.results = NoResults /\ directOk = {}
  /\ extLeft = 0

AllHealthy == \A a \in AdapterSet : boot.healthResults[a] = "up"

NoneHealthy == \A a \in AdapterSet : boot.healthResults[a] = "down"

\* C29, under SpecBoot: no adapter is asked to subscribe more than once, and
\* when both adapters passed the health check and the event types are left
\* at their default each adapter was asked exactly once, for eventTypes ["*"]
\* and the endpoint <iedBaseUrl>/internal/eventNotification/<its own name>
C29_OneWildcardSubscribePerAdapter ==
  /\ \A a \in AdapterSet : boot.subscribes[a] <= 1
  /\ (AllHealthy /\ boot.eventTypesEnv = "") =>
       \A a \in AdapterSet :
         /\ boot.subscribes[a] = 1
         /\ boot.requests[a].eventTypes = <<"*">>
         /\ boot.requests[a].notificationEndpoint =
              <<iedBaseUrl, "/internal/eventNotification/", a>>

C29_Witness ==
  /\ boot.pc = "running" /\ AllHealthy /\ boot.eventTypesEnv = ""
  /\ \A a \in AdapterSet : boot.results[a] = "ok" /\ boot.subscribes[a] = 1

\* C30, under SpecBoot: when every adapter failed the health check, the start
\* has failed in production, and in development the condition is logged and
\* initialize returns without a subscribe call
C30_NoHealthyAdapter ==
  NoneHealthy =>
    /\ boot.nodeEnv = "production" => boot.pc = "failed"
    /\ boot.nodeEnv = "development" =>
         /\ boot.pc = "running" /\ boot.degraded
         /\ \A a \in AdapterSet : boot.subscribes[a] = 0

C30_Witness ==
  /\ NoneHealthy /\ boot.nodeEnv = "development"
  /\ boot.pc = "running" /\ boot.degraded

(* ---------------------------------------------------- properties: C31-C40 *)
\* C31, under SpecBoot: when connectRedis has failed, the start has failed in
\* production, and in development initialize goes on and the engine runs in
\* degraded mode
C31_CacheDownAtStart ==
  boot.redis = "down" =>
    /\ boot.nodeEnv = "production" => boot.pc = "failed"
    /\ boot.nodeEnv = "development" =>
         boot.pc \in {"healthCheck", "subscribe", "running"}

\* C32, under Spec: a handleIncomingEvent call begins its lookups of the
\* missing networks only from a wait of its own, and calls publishEvent only
\* after that wait
C32_WaitsBeforeLookup ==
  [][\A h \in 1..MaxHandlers :
       /\ (handlers'[h].pc = "check" /\ handlers[h].pc # "check")
            => handlers[h].pc = "wait"
       /\ (handlers'[h].pc = "replicate" /\ handlers[h].pc # "replicate")
            => handlers[h].pc \in {"wait", "check"}]_vars

\* the networks of a sequence
Listed(seq) == {seq[k] : k \in 1..Len(seq)}

\* C33, under SpecSeq: when getMissingNetworks returns, the list it returns
\* holds exactly the configured networks whose set does not hold the id,
\* each of them once
C33_MissingNetworksExact ==
  [][\A h \in 1..MaxHandlers :
       (/\ handlers[h].pc = "check" /\ handlers[h].i = Len(getAdapterNames)
        /\ handlers'[h] # handlers[h]
        /\ handlers'[h].pc = "replicate" \/ ~cacheFailed')
       => LET returned == IF handlers'[h].pc = "replicate"
                          THEN handlers'[h].missingNetworks ELSE <<>> IN
          /\ Listed(returned) = {a \in AdapterSet : ~OnChain(a)}
          /\ Len(returned) = Cardinality(Listed(returned))]_vars

C33_Witness ==
  /\ \E h \in 1..MaxHandlers :
       /\ handlers[h].pc = "replicate"
       /\ handlers[h].missingNetworks = <<"alastria">>
       /\ handlers[h].sourceNetwork = "hashnet"
  /\ OnChain("hashnet") /\ ~OnChain("alastria")
  /\ starts["hashnet"] = 2

\* C34, under SpecLoop: in a run with no event born on a ledger, when the
\* fan-out of a direct publish was accepted by every adapter no replication
\* publishEvent call is made, whenever the adapters' notifications arrive
C34_NoReplicationAfterFullFanout ==
  (extLeft = LoopExternal /\ directOk = AdapterSet) =>
    \A a \in AdapterSet : replCalls[a] = 0

\* C35, under SpecNotify: no callback was POSTed for a subscription whose
\* record was then deleted because every adapter subscription of it failed
C35_NoPostForRemovedSubscription ==
  \A id \in 1..MaxSubs : posts[id] > 0 => activeSubscriptions[id].active

\* C36, under SpecNotify: the step in which isEventNotified fails ends the
\* invocation: no POST is made, notifiedEvents is left as it is, and the
\* webhook's answer, given before, stays 200
C36_FailedLookupEndsNotification ==
  [][\A d \in 1..MaxNotifiers :
       (/\ notifiers[d].pc = "isNotified" /\ notifiers'[d] # notifiers[d]
        /\ cacheFailed' /\ ~cacheFailed)
       => /\ notifiers'[d] = IdleNotifier
          /\ posts' = posts /\ notified' = notified
          /\ webhook.desmosNotification = 200 /\ webhook' = webhook]_vars

C36_Witness ==
  /\ cacheFailed /\ NotifiersIdle
  /\ \A id \in 1..MaxSubs : posts[id] = 0
  /\ notified = {} /\ webhook.desmosNotification = 200
  /\ activeSubscriptions[1].active /\ subOp.pc = "done"
  /\ activeSubscriptions[1].eventTypes = <<"ProductAdded">>
  /\ notifLeft = MaxNotifications - 1

NoneMatches(event) == matchingSubscriptions(activeSubscriptions, event) = {}

\* C37, under SpecNotify: when the lookup succeeds and no stored subscription
\* matches the event the invocation ends without a POST and without a write
\* to notifiedEvents; the id enters notifiedEvents only after a POST for it
C37_NoMatchLeavesIdUnmarked ==
  [][/\ \A d \in 1..MaxNotifiers :
          (/\ notifiers[d].pc = "isNotified" /\ notifiers'[d] # notifiers[d]
           /\ NoneMatches(notifiers[d].event))
          => /\ notifiers'[d] = IdleNotifier
             /\ posts' = posts /\ notified' = notified
     /\ notified' # notified => \E id \in 1..MaxSubs : posts[id] > 0]_vars

C37_Witness ==
  /\ notifLeft = 0 /\ NotifiersIdle /\ ~cacheFailed
  /\ subsMade = 1 /\ activeSubscriptions[1].active
  /\ posts[1] = 1 /\ notified = {GlobalId}
  /\ webhook.desmosNotification = 200

\* C38, under SpecAny: only the sets of configured adapters are written, and
\* a handleIncomingEvent call for a :network that is no configured adapter
\* writes no set and calls no adapter
C38_OnlyConfiguredNetworksWritten ==
  [][/\ \A n \in Networks \ AdapterSet : published'[n] = {}
     /\ \A h \in 1..MaxHandlers :
          (/\ Busy(h) /\ handlers[h].sourceNetwork \notin AdapterSet
           /\ handlers'[h] # handlers[h])
          => published' = published /\ replCalls' = replCalls]_vars

\* C39, under SpecBoot: when initialize has returned and some adapter passed
\* the health check, some adapter accepted the internal subscription
C39_StartedMeansSubscribed ==
  (boot.pc = "running" /\ healthyCount(boot.healthResults) > 0) =>
    \E a \in AdapterSet : boot.results[a] = "ok"

\* a step of publishEventToAllAdapters
PublisherWork == pubOp' # pubOp

\* C40, under SpecFlows: no step of the publisher or of the replicator changes
\* notifiedEvents, and no step of handleDesmosNotification changes a published
\* set or is a publishEvent or subscribe call to an adapter
C40_FlowsKeepToTheirSets ==
  [][/\ (PublisherWork \/ AcceptsEvent \/ ReplicationWork) =>
          notified' = notified
     /\ (AcceptsDesmos \/ DesmosWork) =>
          /\ published' = published
          /\ replCalls' = replCalls /\ lastPub' = lastPub
          /\ directOk' = directOk /\ inbox' = inbox
          /\ subOp' = subOp
          /\ activeSubscriptions' = activeSubscriptions]_vars

C40_Witness ==
  /\ notified = {GlobalId} /\ NotifiersIdle
  /\ \E id \in 1..MaxSubs : posts[id] > 0
  /\ published["hashnet"] = {GlobalId} /\ published["alastria"] = {}
  /\ replCalls["alastria"] > 0 /\ directOk = {"hashnet"}

\* C26, under SpecClient: an invocation that met a 4xx answer makes no
\* further attempt and returns failure
C26_ClientErrorIsTerminal ==
  \A a \in AdapterSet :
    "4xx" \in calls[a].errors =>
      /\ Returned(a)
      /\ calls[a].lastError = "4xx"
      /\ ~Ok(a)

====
